---- MODULE Spec2Model ----
(***************************************************************************)
(* The MongoDB vector-database adapter of embedchain                       *)
(* (embedchain/vectordb/mongodb.py) and its configuration class            *)
(* (embedchain/config/vector_db/mongodb.py).                               *)
(*                                                                         *)
(* The document store is the external collaborator: a database is a        *)
(* mapping from the names of its existing collections to the sequence of   *)
(* their documents in insertion order.  A document and a metadata mapping  *)
(* are functions from field names to values, a store filter is a function  *)
(* from field paths to conditions.  An optional argument is <<>> when it   *)
(* is None and <<v>> when it is the value v.                               *)
(***************************************************************************)
EXTENDS Integers, Sequences, FiniteSets, TLC

VARIABLES db, config, collection_name, embedder, last, ctor

vars == <<db, config, collection_name, embedder, last, ctor>>

(***************************************************************************)
(* Bounds of the model and the sets the inputs are drawn from.             *)
(***************************************************************************)
MaxRecs == 2

MaxAdd == 2

Names == {"c1", "c2"}

Ids == {"a", "b"}

Docs == {"d1", "d2"}

EmptyDict == [x \in {} |-> ""]

Metas == {[x \in {"k"} |-> "v1"]}

WhereDicts == {EmptyDict, [x \in {"k"} |-> "v1"],
               [x \in {"k", "text"} |-> IF x = "k" THEN "v1" ELSE "d1"]}

None == <<>>

Some(v) == <<v>>

Unset == "<unset>"

(***************************************************************************)
(* Python dictionaries and truthiness.                                     *)
(***************************************************************************)
DictUpdate(d, e) ==
    [x \in (DOMAIN d) \cup (DOMAIN e) |-> IF x \in DOMAIN e THEN e[x] ELSE d[x]]

DictSet(d, k, v) == DictUpdate(d, [x \in {k} |-> v])

\* `if ids:` -- None and the empty list are both falsy
TruthyList(opt) == Len(opt) > 0 /\ Len(opt[1]) > 0

\* `if where:` -- None and the empty dict are both falsy
TruthyDict(opt) == Len(opt) > 0 /\ DOMAIN opt[1] # {}

Min(a, b) == IF a <= b THEN a ELSE b

Abs(n) == IF n < 0 THEN -n ELSE n

(***************************************************************************)
(* The embedding function: one fixed vector per text.                      *)
(***************************************************************************)
Vector(text) == IF text = "d1" THEN <<1>> ELSE <<4>>

embedding_fn(texts) == [i \in 1..Len(texts) |-> Vector(texts[i])]

(***************************************************************************)
(* The document store client.                                              *)
(***************************************************************************)
Coll(d, name) == IF name \in DOMAIN d THEN d[name] ELSE <<>>

list_collection_names(d) == DOMAIN d

create_collection(d, name) ==
    [c \in (DOMAIN d) \cup {name} |-> IF c = name THEN <<>> ELSE d[c]]

\* a drop that leaves the collection in place
drop_nothing(d, name) == d

drop_collection(d, name) == [c \in (DOMAIN d) \ {name} |-> d[c]]

insert_one(d, name, doc) ==
    [c \in (DOMAIN d) \cup {name} |->
        IF c = name THEN Append(Coll(d, name), doc) ELSE d[c]]

\* one entry of a filter against one document: the operators the adapter
\* builds sit under "identifier" ($in) and "embedding" ($near, which orders
\* and does not select); any other entry is an equality on a top-level field
\* or on the field of the embedded metadata document its dotted path names.
MatchesEntry(doc, path, cond) ==
    IF path = "identifier" THEN \E i \in 1..Len(cond.vals) : cond.vals[i] = doc.identifier
    ELSE IF path = "embedding" THEN TRUE
    ELSE IF path \in DOMAIN doc THEN doc[path] = cond
    ELSE \E f \in DOMAIN doc.metadata :
            ("metadata." \o f) = path /\ doc.metadata[f] = cond

Matches(doc, filter) == \A path \in DOMAIN filter : MatchesEntry(doc, path, filter[path])

Filtered(seq, filter) ==
    LET Test(doc) == Matches(doc, filter) IN SelectSeq(seq, Test)

Distance(doc, vec) == Abs(doc.embedding[1] - vec[1])

RECURSIVE InsertNear(_, _, _)
InsertNear(sorted, doc, vec) ==
    IF Len(sorted) = 0 THEN <<doc>>
    ELSE IF Distance(Head(sorted), vec) <= Distance(doc, vec)
         THEN <<Head(sorted)>> \o InsertNear(Tail(sorted), doc, vec)
         ELSE <<doc>> \o sorted

RECURSIVE NearSorted(_, _)
NearSorted(seq, vec) ==
    IF Len(seq) = 0 THEN <<>>
    ELSE InsertNear(NearSorted(SubSeq(seq, 1, Len(seq) - 1), vec), seq[Len(seq)], vec)

\* a cursor limit: None and 0 mean no limit
Limited(seq, limit) ==
    IF Len(limit) = 0 \/ limit[1] = 0 THEN seq
    ELSE SubSeq(seq, 1, Min(Len(seq), limit[1]))

find(d, name, filter, limit) ==
    LET hits == Filtered(Coll(d, name), filter) IN
    Limited(IF "embedding" \in DOMAIN filter
            THEN NearSorted(hits, filter["embedding"].vals)
            ELSE hits,
            limit)

delete_many(d, name, filter) ==
    IF name \in DOMAIN d
    THEN [d EXCEPT ![name] = LET Keep(doc) == ~Matches(doc, filter) IN SelectSeq(@, Keep)]
    ELSE d

count_documents(d, name, filter) == Len(Filtered(Coll(d, name), filter))

RECURSIVE TotalRecs(_, _)
TotalRecs(d, names) ==
    IF names = {} THEN 0
    ELSE LET c == CHOOSE x \in names : TRUE IN Len(d[c]) + TotalRecs(d, names \ {c})

(***************************************************************************)
(* The adapter.                                                            *)
(***************************************************************************)
\* a translation that forgets the "metadata." prefix
MetadataFilterNoPrefix(where) == where

\* {"metadata." + k: v for k, v in where.items()}
MetadataFilter(where) ==
    [p \in {"metadata." \o k : k \in DOMAIN where} |->
        where[CHOOSE k \in DOMAIN where : ("metadata." \o k) = p]]

_generate_query(where) == MetadataFilter(where)

GetQuery(ids, where) ==
    LET q1 == IF TruthyList(ids)
              THEN DictSet(EmptyDict, "identifier", [op |-> "$in", vals |-> ids[1]])
              ELSE EmptyDict
    IN  IF TruthyDict(where) THEN DictUpdate(q1, MetadataFilter(where[1])) ELSE q1

GetResult(d, cn, ids, where, limit) ==
    LET cursor == find(d, cn, GetQuery(ids, where), limit) IN
    [ids       |-> [i \in 1..Len(cursor) |-> cursor[i].identifier],
     metadatas |-> [i \in 1..Len(cursor) |-> cursor[i].metadata]]

\* a document whose metadata is stored without its text
MakeDocNoText(id, document, metadata, embedding) ==
    [identifier |-> id, text |-> document, metadata |-> metadata, embedding |-> embedding]

MakeDoc(id, document, metadata, embedding) ==
    [identifier |-> id,
     text       |-> document,
     metadata   |-> DictSet(metadata, "text", document),
     embedding  |-> embedding]

Zip(ids, documents, metadatas, embeddings) ==
    [i \in 1..Min(Min(Len(ids), Len(documents)), Min(Len(metadatas), Len(embeddings))) |->
        [id |-> ids[i], document |-> documents[i],
         metadata |-> metadatas[i], embedding |-> embeddings[i]]]

\* a loop that swallows the failure and goes on with the next item
RECURSIVE AddLoopContinue(_, _, _, _, _)
AddLoopContinue(d, cn, items, i, failAt) ==
    IF i > Len(items) THEN [db |-> d, outcome |-> IF failAt = 0 THEN "ok" ELSE "StoreError"]
    ELSE IF i = failAt THEN AddLoopContinue(d, cn, items, i + 1, failAt)
    ELSE AddLoopContinue(insert_one(d, cn, [identifier |-> items[i].id,
                                            text |-> items[i].document,
                                            metadata |-> DictSet(items[i].metadata, "text",
                                                                 items[i].document),
                                            embedding |-> items[i].embedding]),
                         cn, items, i + 1, failAt)

\* the loop of add from item i on; the insert of item failAt raises
RECURSIVE AddLoop(_, _, _, _, _)
AddLoop(d, cn, items, i, failAt) ==
    IF i > Len(items) THEN [db |-> d, outcome |-> "ok"]
    ELSE IF i = failAt THEN [db |-> d, outcome |-> "StoreError"]
    ELSE AddLoop(insert_one(d, cn, MakeDoc(items[i].id, items[i].document,
                                           items[i].metadata, items[i].embedding)),
                 cn, items, i + 1, failAt)

QueryFilter(input_query, where) ==
    LET q1 == DictSet(EmptyDict, "embedding",
                      [op |-> "$near", vals |-> embedding_fn(<<input_query>>)[1]])
    IN  IF TruthyDict(where) THEN DictUpdate(q1, MetadataFilter(where[1])) ELSE q1

DefaultScore == 0

\* a context whose score ignores the one the store supplies
ContextNoUpstream(doc, citations) ==
    IF citations THEN <<doc.text, DictSet(doc.metadata, "score", DefaultScore)>> ELSE doc.text

Context(doc, citations) ==
    IF citations
    THEN <<doc.text,
           DictSet(doc.metadata, "score",
                   IF "score" \in DOMAIN doc THEN doc.score ELSE DefaultScore)>>
    ELSE doc.text

QueryCursor(d, cn, input_query, n_results, where) ==
    find(d, cn, QueryFilter(input_query, where), Some(n_results))

QueryResult(d, cn, input_query, n_results, where, citations) ==
    LET cursor == QueryCursor(d, cn, input_query, n_results, where) IN
    [i \in 1..Len(cursor) |-> Context(cursor[i], citations)]

CountResult(d, cn) == count_documents(d, cn, EmptyDict)

\* _initialize on database d: the outcome, the database and collection_name after
InitializeOn(d, cn) ==
    IF ~embedder THEN [outcome |-> "ValueError", db |-> d, collection_name |-> cn]
    ELSE LET name == config.collection_name IN
         [outcome |-> "ok",
          db |-> IF name \notin list_collection_names(d) THEN create_collection(d, name) ELSE d,
          collection_name |-> name]

\* a reset that drops every collection of the database
ResetDropsAll(d, cn) == InitializeOn(EmptyDict, cn)

ResetOn(d, cn) == InitializeOn(drop_collection(d, cn), cn)

\* a delete that removes the first matching document only
DeleteFirstOnly(d, cn, where) ==
    LET hits == {i \in 1..Len(Coll(d, cn)) : Matches(Coll(d, cn)[i], MetadataFilter(where))} IN
    IF hits = {} THEN d
    ELSE LET first == CHOOSE i \in hits : \A j \in hits : i <= j IN
         [d EXCEPT ![cn] = SubSeq(@, 1, first - 1) \o SubSeq(@, first + 1, Len(@))]

DeleteOn(d, cn, where) == delete_many(d, cn, MetadataFilter(where))

(***************************************************************************)
(* The record of the last call: its arguments, the filter it built, how it *)
(* ended and what it returned.                                             *)
(***************************************************************************)
NoCall ==
    [op |-> "", outcome |-> "ok", ids |-> None, documents |-> <<>>, metadatas |-> <<>>,
     where |-> None, limit |-> None, input_query |-> "", n_results |-> 0,
     citations |-> FALSE, name |-> [isStr |-> TRUE, val |-> ""], failAt |-> 0,
     query |-> None, result |-> None]

\* Init is an adapter already constructed; SpecCtor below is the construction itself
Constructed == [phase |-> "constructed", config |-> None, uri |-> None,
                outcome |-> "ok", client |-> TRUE]

\* documents another writer left in the store: one of them carries a score
Stored == {[identifier |-> "a", text |-> "d1", metadata |-> [x \in {"text"} |-> "d1"],
            embedding |-> <<1>>, score |-> 7]}

InitStores ==
    {EmptyDict} \cup {[c \in {"c1"} |-> <<r>>] : r \in Stored}

Init ==
    /\ db \in InitStores
    /\ config = [collection_name |-> "c1"]
    /\ collection_name = Unset
    /\ embedder = FALSE
    /\ last = NoCall
    /\ ctor = Constructed

\* the embedder attribute is set from outside the class (`set_embedder`)
SetEmbedder ==
    /\ embedder' = TRUE
    /\ last' = [NoCall EXCEPT !.op = "set_embedder"]
    /\ UNCHANGED <<db, config, collection_name, ctor>>

Initialize ==
    LET r == InitializeOn(db, collection_name) IN
    /\ db' = r.db
    /\ collection_name' = r.collection_name
    /\ last' = [NoCall EXCEPT !.op = "_initialize", !.outcome = r.outcome]
    /\ UNCHANGED <<config, embedder, ctor>>

Get(ids, where, limit) ==
    /\ last' = [NoCall EXCEPT !.op = "get", !.ids = ids, !.where = where, !.limit = limit,
                   !.query = Some(GetQuery(ids, where)),
                   !.outcome = IF collection_name = Unset THEN "AttributeError" ELSE "ok",
                   !.result = IF collection_name = Unset THEN None
                              ELSE Some(GetResult(db, collection_name, ids, where, limit))]
    /\ UNCHANGED <<db, config, collection_name, embedder, ctor>>

Add(documents, metadatas, ids, failAt) ==
    LET items == Zip(ids, documents, metadatas, embedding_fn(documents))
        r == IF ~embedder THEN [db |-> db, outcome |-> "AttributeError"]
             ELSE IF Len(items) > 0 /\ collection_name = Unset
                  THEN [db |-> db, outcome |-> "AttributeError"]
             ELSE AddLoop(db, collection_name, items, 1, failAt)
    IN
    /\ db' = r.db
    /\ last' = [NoCall EXCEPT !.op = "add", !.ids = Some(ids), !.documents = documents,
                   !.metadatas = metadatas, !.failAt = failAt, !.outcome = r.outcome]
    /\ UNCHANGED <<config, collection_name, embedder, ctor>>

Query(input_query, n_results, where, citations) ==
    LET fails == ~embedder \/ collection_name = Unset IN
    /\ last' = [NoCall EXCEPT !.op = "query", !.input_query = input_query,
                   !.n_results = n_results, !.where = where, !.citations = citations,
                   !.query = IF ~embedder THEN None ELSE Some(QueryFilter(input_query, where)),
                   !.outcome = IF fails THEN "AttributeError" ELSE "ok",
                   !.result = IF fails THEN None
                              ELSE Some(QueryResult(db, collection_name, input_query,
                                                    n_results, where, citations))]
    /\ UNCHANGED <<db, config, collection_name, embedder, ctor>>

Count ==
    /\ last' = [NoCall EXCEPT !.op = "count",
                   !.outcome = IF collection_name = Unset THEN "AttributeError" ELSE "ok",
                   !.result = IF collection_name = Unset THEN None
                              ELSE Some(CountResult(db, collection_name))]
    /\ UNCHANGED <<db, config, collection_name, embedder, ctor>>

Reset ==
    LET r == IF collection_name = Unset
             THEN [outcome |-> "AttributeError", db |-> db, collection_name |-> collection_name]
             ELSE ResetOn(db, collection_name)
    IN
    /\ db' = r.db
    /\ collection_name' = r.collection_name
    /\ last' = [NoCall EXCEPT !.op = "reset", !.outcome = r.outcome]
    /\ UNCHANGED <<config, embedder, ctor>>

SetCollectionName(name) ==
    /\ IF ~name.isStr
       THEN UNCHANGED <<config, collection_name>>
       ELSE /\ config' = [config EXCEPT !.collection_name = name.val]
            /\ collection_name' = name.val
    /\ last' = [NoCall EXCEPT !.op = "set_collection_name", !.name = name,
                   !.outcome = IF name.isStr THEN "ok" ELSE "TypeError"]
    /\ UNCHANGED <<db, embedder, ctor>>

GenerateQuery(where) ==
    /\ last' = [NoCall EXCEPT !.op = "_generate_query", !.where = Some(where),
                   !.query = Some(_generate_query(where))]
    /\ UNCHANGED <<db, config, collection_name, embedder, ctor>>

Delete(where) ==
    /\ db' = IF collection_name = Unset THEN db ELSE DeleteOn(db, collection_name, where)
    /\ last' = [NoCall EXCEPT !.op = "delete", !.where = Some(where),
                   !.query = Some(MetadataFilter(where)),
                   !.outcome = IF collection_name = Unset THEN "AttributeError" ELSE "ok"]
    /\ UNCHANGED <<config, collection_name, embedder, ctor>>

IdLists == {None, Some(<<>>), Some(<<"a">>)}

GetWheres == {Some(EmptyDict), Some([x \in {"k"} |-> "v1"])}

QueryWheres == {None, Some([x \in {"k", "text"} |-> IF x = "k" THEN "v1" ELSE "d1"])}

Limits == {None, Some(1)}

NResults == {1, 2}

QueryTexts == {"d2"}

NameArgs == {[isStr |-> TRUE, val |-> n] : n \in Names} \cup {[isStr |-> FALSE, val |-> "7"]}

AddCall ==
    \E n \in 0..MaxAdd :
        /\ TotalRecs(db, DOMAIN db) + n <= MaxRecs
        /\ \E documents \in [1..n -> Docs], metadatas \in [1..n -> Metas],
              ids \in [1..n -> Ids], failAt \in 0..n :
                Add(documents, metadatas, ids, failAt)

Writes ==
    \/ SetEmbedder
    \/ Initialize
    \/ AddCall
    \/ Reset
    \/ \E name \in NameArgs : SetCollectionName(name)
    \/ \E where \in WhereDicts : Delete(where)

QueryCall ==
    \E input_query \in QueryTexts, n_results \in NResults, where \in QueryWheres,
       citations \in BOOLEAN : Query(input_query, n_results, where, citations)

Reads ==
    \/ \E ids \in IdLists, where \in GetWheres, limit \in Limits : Get(ids, where, limit)
    \/ QueryCall
    \/ Count
    \/ \E where \in WhereDicts : GenerateQuery(where)

Next == Writes \/ Reads

Spec == Init /\ [][Next]_vars


(***************************************************************************)
(* Construction: the program imports the adapter module and calls          *)
(* MongoDB(config).  The adapter module imports the name MongoDBConfig     *)
(* from the configuration module, whose only class is MongoDbConfig.       *)
(***************************************************************************)
ConfigExports == {"MongoDbConfig"}

ImportedConfigName == "MongoDBConfig"

\* `from embedchain.config.vector_db.mongodb import MongoDBConfig`
ImportModule == IF ImportedConfigName \in ConfigExports THEN "ok" ELSE "ImportError"

\* MongoDbConfig(collection_name, database_name, retry_writes)
MongoDbConfig(name, database, retry) ==
    [class |-> "MongoDbConfig", collection_name |-> name,
     database_name |-> database, retry_writes |-> retry]

ConfigArgs ==
    {None}
    \cup {Some([class |-> c]) : c \in {"str", "dict"}}
    \cup {Some(MongoDbConfig(n, d, r)) :
            n \in {None} \cup {Some(x) : x \in Names},
            d \in {None, Some("db1")},
            r \in BOOLEAN}

Uris == {None, Some("mongodb://h1")}

\* MongoDB.__init__ once the module is loaded
MongoDBInit(cfg, uri) ==
    IF Len(cfg) > 0 /\ cfg[1].class # ImportedConfigName
    THEN [phase |-> "done", config |-> cfg, uri |-> uri, outcome |-> "TypeError",
          client |-> FALSE]
    ELSE [phase |-> "done", config |-> cfg, uri |-> uri, outcome |-> "ok", client |-> TRUE]

InitCtor ==
    /\ db \in InitStores
    /\ config = [collection_name |-> "c1"]
    /\ collection_name = Unset
    /\ embedder = FALSE
    /\ last = NoCall
    /\ ctor \in {[phase |-> "start", config |-> c, uri |-> u, outcome |-> "", client |-> FALSE] :
                    c \in ConfigArgs, u \in Uris}

Construct ==
    /\ ctor.phase = "start"
    /\ ctor' = IF ImportModule = "ok" THEN MongoDBInit(ctor.config, ctor.uri)
               ELSE [ctor EXCEPT !.phase = "done", !.outcome = ImportModule]
    /\ UNCHANGED <<db, config, collection_name, embedder, last>>

NextCtor == Construct

SpecCtor == InitCtor /\ [][NextCtor]_vars

(***************************************************************************)
(* Properties.                                                             *)
(***************************************************************************)
Cur == Coll(db, collection_name)

\* every key of where is a key of the metadata with the same value
MetaMatches(metadata, where) ==
    \A k \in DOMAIN where : k \in DOMAIN metadata /\ metadata[k] = where[k]

\* the metadata add stores: the supplied one with its text key set to the document
StoredMeta(metadata, document) ==
    [x \in (DOMAIN metadata) \cup {"text"} |-> IF x = "text" THEN document ELSE metadata[x]]

Others(c) == Names \ {c}

\* the database with every collection but the named one removed
Only(d, name) == [c \in (DOMAIN d) \cap {name} |-> d[c]]

\* C1: after add(documents, metadatas, ids) has completed, for every id of the call
\* get(ids=[id]) returns a result that holds the id at some position and, at the same
\* position, the supplied metadata with its text key set to the document.
AddThenGet ==
    (last.op = "add" /\ last.outcome = "ok") =>
        \A i \in 1..Len(last.documents) :
            LET r == GetResult(db, collection_name, Some(<<last.ids[1][i]>>), None, None) IN
            \E j \in 1..Len(r.ids) :
                /\ r.ids[j] = last.ids[1][i]
                /\ r.metadatas[j] = StoredMeta(last.metadatas[i], last.documents[i])

\* an add has completed on a collection that already held a record with the same id
\* and another document
AddThenGetWitness ==
    /\ last.op = "add" /\ last.outcome = "ok"
    /\ Len(last.documents) = 1
    /\ Len(Cur) = 2
    /\ Cur[1].identifier = last.ids[1][1]
    /\ Cur[1].text # last.documents[1]

\* C2: delete(where) removes exactly the records of the current collection whose
\* metadata holds every key of where with its value, keeps every other record and every
\* other collection, and count() drops by the number of matching records.
DeleteExact ==
    [][(last'.op = "delete" /\ last'.outcome = "ok") =>
        LET w == last'.where[1]
            before == Coll(db, collection_name)
            Hit(doc) == MetaMatches(doc.metadata, w)
            Miss(doc) == ~MetaMatches(doc.metadata, w)
        IN  /\ Coll(db', collection_name) = SelectSeq(before, Miss)
            /\ DOMAIN db' = DOMAIN db
            /\ \A c \in Others(collection_name) : Coll(db', c) = Coll(db, c)
            /\ CountResult(db', collection_name')
                 = CountResult(db, collection_name) - Len(SelectSeq(before, Hit))]_vars

\* a delete with a non-empty where has left a record that does not match it
DeleteExactWitness ==
    /\ last.op = "delete" /\ last.outcome = "ok"
    /\ DOMAIN last.where[1] # {}
    /\ Len(Cur) = 1
    /\ ~MetaMatches(Cur[1].metadata, last.where[1])

SameTexts(texts, documents) ==
    /\ Len(texts) = Len(documents)
    /\ \A d \in Docs : Cardinality({i \in 1..Len(texts) : texts[i] = d})
                        = Cardinality({i \in 1..Len(documents) : documents[i] = d})

\* C3: after reset() has returned, count() is 0 and the current collection exists; an
\* add of n records that follows makes count() n, and get and query return them.
ResetUsable ==
    [][/\ (last'.op = "reset" /\ last'.outcome = "ok") =>
            /\ CountResult(db', collection_name') = 0
            /\ collection_name' \in list_collection_names(db')
       /\ (last.op = "reset" /\ last.outcome = "ok" /\ last'.op = "add" /\ last'.outcome = "ok") =>
            LET n == Len(last'.documents)
                got == GetResult(db', collection_name', None, None, None)
            IN  /\ CountResult(db', collection_name') = n
                /\ got.ids = last'.ids[1]
                /\ got.metadatas = [i \in 1..n |-> StoredMeta(last'.metadatas[i],
                                                              last'.documents[i])]
                /\ \A q \in Docs :
                      SameTexts(QueryResult(db', collection_name', q,
                                            IF n = 0 THEN 1 ELSE n, None, FALSE),
                                last'.documents)]_vars

\* a reset has returned while another collection holds records
ResetUsableWitness ==
    /\ last.op = "reset" /\ last.outcome = "ok"
    /\ collection_name \in DOMAIN db
    /\ \E c \in Others(collection_name) : Len(Coll(db, c)) > 0

\* C4: _initialize and reset report a missing embedder as a ValueError with the
\* store's collections and records the same after the failed call as before it.
ValueErrorBeforeStoreAccess ==
    [][(last'.op \in {"_initialize", "reset"} /\ last'.outcome = "ValueError") => db' = db]_vars

\* C5: the filter built by get, query, delete and _generate_query holds exactly one
\* entry "metadata."+k for each key k of where, with the value of k, and besides them
\* only the identifier constraint (get with ids) or the embedding constraint (query).
FilterTranslation ==
    (Len(last.query) > 0) =>
        LET F == last.query[1]
            W == IF Len(last.where) > 0 THEN last.where[1] ELSE EmptyDict
            translated == {"metadata." \o k : k \in DOMAIN W}
        IN  /\ \A k \in DOMAIN W :
                  ("metadata." \o k) \in DOMAIN F /\ F["metadata." \o k] = W[k]
            /\ Cardinality(translated) = Cardinality(DOMAIN W)
            /\ (DOMAIN F) \ translated =
                  IF last.op = "get" /\ TruthyList(last.ids) THEN {"identifier"}
                  ELSE IF last.op = "query" THEN {"embedding"}
                  ELSE {}
            /\ "identifier" \in DOMAIN F =>
                  F["identifier"] = [op |-> "$in", vals |-> last.ids[1]]

\* a query has built its filter from a where of two keys
FilterTranslationWitness ==
    /\ last.op = "query" /\ Len(last.query) > 0 /\ Len(last.where) > 0
    /\ Cardinality(DOMAIN last.where[1]) = 2
    /\ Cardinality(DOMAIN last.query[1]) = 3

\* C6: when the insert of the k-th record of an add fails, add ends with that failure,
\* the collection holds its previous contents followed by the first k-1 records of the
\* call, and nothing else changes.
AddFailureStops ==
    [][(last'.op = "add" /\ last'.failAt > 0 /\ embedder /\ collection_name # Unset) =>
        LET k == last'.failAt
            built == [i \in 1..(k - 1) |->
                        [identifier |-> last'.ids[1][i],
                         text |-> last'.documents[i],
                         metadata |-> StoredMeta(last'.metadatas[i], last'.documents[i]),
                         embedding |-> Vector(last'.documents[i])]]
        IN  /\ last'.outcome = "StoreError"
            /\ Coll(db', collection_name) = Coll(db, collection_name) \o built
            /\ \A c \in Others(collection_name) : Coll(db', c) = Coll(db, c)
            /\ DOMAIN db' \subseteq (DOMAIN db) \cup {collection_name}]_vars

\* the second insert of an add has failed and the first record is in the collection
AddFailureStopsWitness ==
    /\ last.op = "add" /\ last.outcome = "StoreError" /\ last.failAt = 2
    /\ Len(Cur) >= 1
    /\ Cur[Len(Cur)].identifier = last.ids[1][1]
    /\ Cur[Len(Cur)].text = last.documents[1]

\* C7: query with citations returns for every record found the pair of its text and its
\* metadata with a score key, the record's own score or 0; without citations the text
\* alone; and the store is the same after the query as before it.
QueryScores ==
    [][(last'.op = "query" /\ last'.outcome = "ok") =>
        LET cursor == QueryCursor(db, collection_name, last'.input_query,
                                  last'.n_results, last'.where)
            res == last'.result[1]
        IN  /\ db' = db
            /\ Len(res) = Len(cursor)
            /\ \A i \in 1..Len(cursor) :
                  IF last'.citations
                  THEN /\ res[i][1] = cursor[i].text
                       /\ "score" \in DOMAIN res[i][2]
                       /\ res[i][2]["score"] = IF "score" \in DOMAIN cursor[i]
                                                THEN cursor[i].score ELSE 0
                       /\ DOMAIN res[i][2] = (DOMAIN cursor[i].metadata) \cup {"score"}
                       /\ \A f \in (DOMAIN cursor[i].metadata) \ {"score"} :
                             res[i][2][f] = cursor[i].metadata[f]
                  ELSE res[i] = cursor[i].text]_vars

\* a query with citations has returned a record with an upstream score and one without
QueryScoresWitness ==
    /\ last.op = "query" /\ last.outcome = "ok" /\ last.citations
    /\ Len(last.result[1]) = 2
    /\ \E i, j \in 1..2 : /\ last.result[1][i][2]["score"] = 7
                           /\ last.result[1][j][2]["score"] = 0

\* C8: construction with a config that is neither None nor a MongoDB config ends in a
\* TypeError with no client created; construction with None does not end in that error.
ConstructionChecksConfig ==
    (ctor.phase = "done") =>
        /\ (Len(ctor.config) > 0 /\ ctor.config[1].class # "MongoDbConfig") =>
              (ctor.outcome = "TypeError" /\ ~ctor.client)
        /\ (Len(ctor.config) = 0) => ctor.outcome # "TypeError"

\* C9: set_collection_name with a non-string raises TypeError and changes nothing; with
\* a string it sets config.collection_name and collection_name and changes no record;
\* every call changes at most the collection selected after it, get, query and count
\* return what they return on the selected collection alone, and only
\* set_collection_name, _initialize and reset assign collection_name.
CollectionIsolation ==
    [][/\ (last'.op = "set_collection_name") =>
            /\ db' = db
            /\ IF last'.name.isStr
               THEN /\ last'.outcome = "ok"
                    /\ config'.collection_name = last'.name.val
                    /\ collection_name' = last'.name.val
               ELSE /\ last'.outcome = "TypeError"
                    /\ config' = config
                    /\ collection_name' = collection_name
       /\ \A c \in Others(collection_name') :
            /\ Coll(db', c) = Coll(db, c)
            /\ (c \in DOMAIN db') = (c \in DOMAIN db)
       /\ (last'.op \notin {"set_collection_name", "_initialize", "reset"}) =>
            (collection_name' = collection_name /\ config' = config)
       /\ (collection_name' # Unset) => collection_name' = config'.collection_name
       /\ (last'.op = "get" /\ last'.outcome = "ok") =>
            last'.result[1] = GetResult(Only(db, collection_name), collection_name,
                                        last'.ids, last'.where, last'.limit)
       /\ (last'.op = "query" /\ last'.outcome = "ok") =>
            last'.result[1] = QueryResult(Only(db, collection_name), collection_name,
                                          last'.input_query, last'.n_results, last'.where,
                                          last'.citations)
       /\ (last'.op = "count" /\ last'.outcome = "ok") =>
            last'.result[1] = CountResult(Only(db, collection_name), collection_name)]_vars

\* the adapter was switched to another collection and reset it while the collection
\* selected before still holds its records
CollectionIsolationWitness ==
    /\ last.op = "reset" /\ last.outcome = "ok"
    /\ collection_name = "c2"
    /\ Len(Coll(db, "c1")) > 0

\* C10: get(ids, where, limit) returns ids and metadatas of equal length, aligned to the
\* same stored record; with a list of ids (the empty list included) every returned id is
\* in the list; with a where every returned metadata matches it; with a limit at most
\* that many records are returned.
GetRespectsArguments ==
    (last.op = "get" /\ last.outcome = "ok") =>
        LET r == last.result[1] IN
        /\ Len(r.ids) = Len(r.metadatas)
        /\ \A j \in 1..Len(r.ids) :
              \E i \in 1..Len(Cur) :
                  Cur[i].identifier = r.ids[j] /\ Cur[i].metadata = r.metadatas[j]
        /\ (Len(last.ids) > 0) =>
              \A j \in 1..Len(r.ids) : \E i \in 1..Len(last.ids[1]) : last.ids[1][i] = r.ids[j]
        /\ (Len(last.where) > 0) =>
              \A j \in 1..Len(r.metadatas) : MetaMatches(r.metadatas[j], last.where[1])
        /\ (Len(last.limit) > 0) => Len(r.ids) <= last.limit[1]

====
